---------------------------- MODULE Spec2Model ----------------------------
(***************************************************************************)
(* Ballu ASP-100 integration: the MQTT transport (mqtt_client.py) and the  *)
(* climate entity (climate.py) as state machines.                          *)
(*                                                                         *)
(* Strings that the code takes apart (topics, payloads) are sequences of   *)
(* one-character strings, so that split('/'), "x in s", int() and          *)
(* isdigit() are computed rather than assumed.                             *)
(***************************************************************************)
EXTENDS Integers, Sequences, FiniteSets, TLC

(***************************************************************************)
(* Bounds of the model.                                                    *)
(***************************************************************************)
\* connect() calls (each creates one paho client and at most one task)
MaxClients == 2
\* messages the network threads hand to _on_message
MaxMsgs == 2
\* subscribe() calls
MaxSubs == 3
\* disconnect() calls
MaxDisconnects == 2
\* publish() calls of the transport's own caller
MaxPubs == 1
\* broker drops (each followed by the network loop's reconnect)
MaxDrops == 1
\* messages handled and commands called by the entity
MaxSteps == 3
\* segments of a pattern or topic handed to _topic_matches on its own
MaxSegs == 3

(***************************************************************************)
(* Program constants.                                                      *)
(***************************************************************************)
\* asyncio.Queue() is built with the default maxsize
QueueMaxSize == 0
\* for _ in range(10) in connect()
ConnectWaitIters == 10

\* Python's None, True and False where a variable holds any of the three
None == "None"
True == "True"
False == "False"

(***************************************************************************)
(* Character-level helpers (Python str methods used by the code).          *)
(***************************************************************************)
RECURSIVE SplitFrom(_, _, _)
\* s.split('/'): cur is the segment being read, i the next position
SplitFrom(s, i, cur) ==
    IF i > Len(s) THEN <<cur>>
    ELSE IF s[i] = "/" THEN <<cur>> \o SplitFrom(s, i + 1, <<>>)
    ELSE SplitFrom(s, i + 1, Append(cur, s[i]))

Split(s) == SplitFrom(s, 1, <<>>)

\* ch in s, for a one-character ch
HasChar(s, ch) == \E i \in 1..Len(s) : s[i] = ch

\* sub in s, for strings
Contains(s, sub) ==
    \E i \in 0..(Len(s) - Len(sub)) :
        \A j \in 1..Len(sub) : s[i + j] = sub[j]

(***************************************************************************)
(* Python conversions used by climate.py.  Numbers that the code holds as  *)
(* floats (temperatures) are integers counting tenths of a degree.         *)
(***************************************************************************)
DigitChars == <<"0", "1", "2", "3", "4", "5", "6", "7", "8", "9">>
IsDigit(ch) == \E i \in 1..10 : DigitChars[i] = ch
DigitVal(ch) == (CHOOSE i \in 1..10 : DigitChars[i] = ch) - 1

\* str.isdigit()
isdigit(s) == Len(s) > 0 /\ \A i \in 1..Len(s) : IsDigit(s[i])

RECURSIVE Strip(_)
\* str.strip() of blanks, which int() and float() apply first
Strip(s) ==
    IF s = <<>> THEN s
    ELSE IF Head(s) = " " THEN Strip(Tail(s))
    ELSE IF s[Len(s)] = " " THEN Strip(SubSeq(s, 1, Len(s) - 1))
    ELSE s

RECURSIVE DigitsVal(_)
\* the value of a non-empty string of digits
DigitsVal(s) ==
    IF Len(s) = 1 THEN DigitVal(s[1])
    ELSE 10 * DigitsVal(SubSeq(s, 1, Len(s) - 1)) + DigitVal(s[Len(s)])

\* a leading sign, taken off
Unsigned(s) == IF s # <<>> /\ Head(s) \in {"+", "-"} THEN Tail(s) ELSE s
SignOf(s) == IF s # <<>> /\ Head(s) = "-" THEN -1 ELSE 1

\* int(payload): ok is FALSE where Python raises ValueError
ParseInt(payload) ==
    LET t == Strip(payload)
        u == Unsigned(t)
    IN IF isdigit(u)
       THEN [ok |-> TRUE, value |-> SignOf(t) * DigitsVal(u)]
       ELSE [ok |-> FALSE, value |-> 0]

\* the position of the first "." in s, or 0
DotAt(s) == IF HasChar(s, ".") THEN CHOOSE i \in 1..Len(s) :
                                        s[i] = "." /\ \A j \in 1..(i - 1) : s[j] # "."
            ELSE 0

\* float(payload), in tenths: digits, or digits "." and at most one digit; ok is
\* FALSE where Python raises ValueError
ParseFloat(payload) ==
    LET t == Strip(payload)
        u == Unsigned(t)
        d == DotAt(u)
        whole == IF d = 0 THEN u ELSE SubSeq(u, 1, d - 1)
        frac == IF d = 0 THEN <<>> ELSE SubSeq(u, d + 1, Len(u))
        wellformed == /\ \A i \in 1..Len(whole) : IsDigit(whole[i])
                      /\ \A i \in 1..Len(frac) : IsDigit(frac[i])
                      /\ Len(whole) + Len(frac) > 0
                      /\ Len(frac) <= 1
    IN IF wellformed
       THEN [ok |-> TRUE,
             value |-> SignOf(t) * (10 * (IF whole = <<>> THEN 0 ELSE DigitsVal(whole))
                                    + (IF frac = <<>> THEN 0 ELSE DigitsVal(frac)))]
       ELSE [ok |-> FALSE, value |-> 0]

RECURSIVE NatToStr(_)
NatToStr(n) ==
    IF n < 10 THEN <<DigitChars[n + 1]>>
    ELSE Append(NatToStr(n \div 10), DigitChars[(n % 10) + 1])

\* str(n) for an int n
IntToStr(n) == IF n < 0 THEN <<"-">> \o NatToStr(-n) ELSE NatToStr(n)

\* int(x) for a float x held in tenths: truncation towards zero
TruncTenths(x) == IF x < 0 THEN -((-x) \div 10) ELSE x \div 10

RECURSIVE Without(_, _)
\* s.replace(ch, "")
Without(s, ch) ==
    IF s = <<>> THEN s
    ELSE IF Head(s) = ch THEN Without(Tail(s), ch)
    ELSE <<Head(s)>> \o Without(Tail(s), ch)

(***************************************************************************)
(* BalluMQTTClient._topic_matches                                          *)
(***************************************************************************)
RECURSIVE MatchParts_NoCount(_, _, _)
\* the loop of _topic_matches followed by "return True"
MatchParts_NoCount(sub_parts, topic_parts, i) ==
    IF i > Len(sub_parts) THEN TRUE
    ELSE IF i > Len(topic_parts) THEN FALSE
    ELSE IF sub_parts[i] = <<"+">> THEN MatchParts_NoCount(sub_parts, topic_parts, i + 1)
    ELSE IF sub_parts[i] = <<"#">> THEN TRUE
    ELSE IF sub_parts[i] # topic_parts[i] THEN FALSE
    ELSE MatchParts_NoCount(sub_parts, topic_parts, i + 1)

RECURSIVE MatchParts(_, _, _)
\* the for loop over enumerate(sub_parts), from index i (1-based)
MatchParts(sub_parts, topic_parts, i) ==
    IF i > Len(sub_parts) THEN Len(sub_parts) = Len(topic_parts)
    ELSE IF i > Len(topic_parts) THEN FALSE
    ELSE IF sub_parts[i] = <<"+">> THEN MatchParts(sub_parts, topic_parts, i + 1)
    ELSE IF sub_parts[i] = <<"#">> THEN TRUE
    ELSE IF sub_parts[i] # topic_parts[i] THEN FALSE
    ELSE MatchParts(sub_parts, topic_parts, i + 1)

\* what _topic_matches returns: the function ends without a return statement,
\* and so returns None, for a subscription that differs from the topic and
\* holds no wildcard
topic_matches_value(subscription, topic) ==
    IF subscription = topic THEN True
    ELSE IF HasChar(subscription, "+") \/ HasChar(subscription, "#")
         THEN (IF MatchParts(Split(subscription), Split(topic), 1) THEN True ELSE False)
         ELSE None

\* if self._topic_matches(sub_topic, topic): the truth value of what it returns
topic_matches(subscription, topic) == topic_matches_value(subscription, topic) = True

(***************************************************************************)
(* climate.py: BalluASP100Breezer.                                         *)
(*                                                                         *)
(* dev holds the entity's attributes under their names in the source       *)
(* (without the leading underscore).  An attribute that may be None is a   *)
(* sequence: <<>> for None, <<v>> for the value v.                         *)
(***************************************************************************)
\* const.py
TOPIC_PREFIX == <<"r", "u", "s", "c", "l", "i", "m", "a", "t", "e">>
DEVICE_TYPE == <<"6", "9">>

\* HVACMode
HVAC_OFF == "off"
HVAC_FAN_ONLY == "fan_only"
HvacModes == {HVAC_OFF, HVAC_FAN_ONLY}

\* the preset names of homeassistant.components.climate.const, and PRESET_AUTO
PRESET_COMFORT == "comfort"
PRESET_AUTO == "auto"
PRESET_SLEEP == "sleep"
PRESET_BOOST == "boost"
PRESET_ECO == "eco"
PRESET_NONE == "none"

\* _attr_min_temp, _attr_max_temp, in degrees
attr_min_temp == 5
attr_max_temp == 25

\* _attr_fan_modes
attr_fan_modes == {<<"O", "f", "f">>, <<"S", "1">>, <<"S", "2">>, <<"S", "3">>, <<"S", "4">>, <<"S", "5">>, <<"S", "6">>, <<"S", "7">>}

\* async_setup_entry: f"{TOPIC_PREFIX}/{DEVICE_TYPE}/{client_id}"
TopicPrefix(client_id) == TOPIC_PREFIX \o <<"/">> \o DEVICE_TYPE \o <<"/">> \o client_id

\* _subscribe_topics: the four state topics
StateTopics(prefix) ==
    [mode |-> prefix \o <<"/", "s", "t", "a", "t", "e", "/", "m", "o", "d", "e">>,
     speed |-> prefix \o <<"/", "s", "t", "a", "t", "e", "/", "s", "p", "e", "e", "d">>,
     temperature |-> prefix \o <<"/", "s", "t", "a", "t", "e", "/", "t", "e", "m", "p", "e", "r", "a", "t", "u", "r", "e">>,
     current_temp |-> prefix \o <<"/", "s", "t", "a", "t", "e", "/", "s", "e", "n", "s", "o", "r", "/", "t", "e", "m", "p", "e", "r", "a", "t", "u", "r", "e">>]

\* the control topics the commands publish on
ControlTopic(prefix, what) ==
    CASE what = "mode" -> prefix \o <<"/", "c", "o", "n", "t", "r", "o", "l", "/", "m", "o", "d", "e">>
      [] what = "speed" -> prefix \o <<"/", "c", "o", "n", "t", "r", "o", "l", "/", "s", "p", "e", "e", "d">>
      [] what = "temperature" -> prefix \o <<"/", "c", "o", "n", "t", "r", "o", "l", "/", "t", "e", "m", "p", "e", "r", "a", "t", "u", "r", "e">>

\* BalluASP100Breezer.__init__
InitialEntity ==
    [hvac_mode |-> HVAC_OFF,
     target_temperature |-> 200,
     current_temperature |-> <<>>,
     fan_mode |-> <<>>,
     preset_mode |-> PRESET_NONE,
     current_mode |-> 0,
     current_speed |-> <<>>,
     state_received |-> [mode |-> FALSE, speed |-> FALSE,
                         temperature |-> FALSE, current_temp |-> FALSE]]

\* lines 198-209, and 295-304 with no else: the preset of an operating code
PresetOfMode(mode_value, otherwise) ==
    CASE mode_value = 1 -> PRESET_COMFORT
      [] mode_value = 2 -> PRESET_AUTO
      [] mode_value = 3 -> PRESET_SLEEP
      [] mode_value = 4 -> PRESET_BOOST
      [] mode_value = 5 -> PRESET_ECO
      [] OTHER -> otherwise

\* _update_mode_from_payload with no except clause: the ValueError leaves it
update_mode_Unhandled(d, payload) ==
    LET n == ParseInt(payload)
    IN [dev |-> IF n.ok
                THEN [d EXCEPT !.current_mode = n.value,
                               !.hvac_mode = IF n.value = 0 THEN HVAC_OFF ELSE HVAC_FAN_ONLY,
                               !.preset_mode = PresetOfMode(n.value, PRESET_NONE)]
                ELSE d,
        raised |-> ~n.ok]

\* _update_mode_from_payload: the new attributes, and whether an exception
\* leaves the method
update_mode_from_payload(d, payload) ==
    LET n == ParseInt(payload)
    IN IF n.ok
       THEN [dev |-> [d EXCEPT !.current_mode = n.value,
                               !.hvac_mode = IF n.value = 0 THEN HVAC_OFF ELSE HVAC_FAN_ONLY,
                               !.preset_mode = PresetOfMode(n.value, PRESET_NONE)],
             raised |-> FALSE]
       ELSE [dev |-> d, raised |-> FALSE]

\* speed_mapping.get(payload, "Off") in _update_fan_from_payload
SpeedLabel(payload) ==
    IF Len(payload) = 1 /\ payload[1] \in {"1", "2", "3", "4", "5", "6", "7"}
    THEN <<"S">> \o payload
    ELSE <<"O", "f", "f">>

\* _update_fan_from_payload
update_fan_from_payload(d, payload) ==
    IF isdigit(payload)
    THEN [dev |-> [d EXCEPT !.fan_mode = <<SpeedLabel(payload)>>,
                            !.current_speed = <<payload>>],
          raised |-> FALSE]
    ELSE LET label == IF payload \in attr_fan_modes THEN payload ELSE <<"O", "f", "f">>
         IN [dev |-> [d EXCEPT !.fan_mode = <<label>>,
                               !.current_speed =
                                   <<IF Head(label) = "S" THEN Without(label, "S")
                                     ELSE <<"0">> >>],
             raised |-> FALSE]

\* _update_temperature_from_payload
update_temperature_from_payload(d, payload) ==
    LET x == ParseFloat(payload)
    IN [dev |-> IF x.ok THEN [d EXCEPT !.target_temperature = x.value] ELSE d,
        raised |-> FALSE]

\* _update_current_temp_from_payload
update_current_temp_from_payload(d, payload) ==
    LET x == ParseFloat(payload)
    IN [dev |-> IF x.ok THEN [d EXCEPT !.current_temperature = <<x.value>>] ELSE d,
        raised |-> FALSE]

\* _subscribe_topics.message_received, lines 158-169: which branch takes the topic
Route(topic) ==
    IF Contains(topic, <<"m", "o", "d", "e">>) THEN "mode"
    ELSE IF Contains(topic, <<"s", "p", "e", "e", "d">>) THEN "speed"
    ELSE IF Contains(topic, <<"t", "e", "m", "p", "e", "r", "a", "t", "u", "r", "e">>) /\ ~Contains(topic, <<"s", "e", "n", "s", "o", "r">>) THEN "temperature"
    ELSE IF Contains(topic, <<"s", "e", "n", "s", "o", "r", "/", "t", "e", "m", "p", "e", "r", "a", "t", "u", "r", "e">>) THEN "current_temp"
    ELSE "none"

\* _subscribe_topics.message_received: the new attributes, and whether an
\* exception leaves the handler (line 178 catches what the branch raises)
message_received(d, topic, payload) ==
    LET r == Route(topic)
        flagged == IF r = "none" THEN d ELSE [d EXCEPT !.state_received[r] = TRUE]
        out == CASE r = "mode" -> update_mode_from_payload(flagged, payload)
                 [] r = "speed" -> update_fan_from_payload(flagged, payload)
                 [] r = "temperature" -> update_temperature_from_payload(flagged, payload)
                 [] r = "current_temp" -> update_current_temp_from_payload(flagged, payload)
                 [] OTHER -> [dev |-> flagged, raised |-> FALSE]
    IN [dev |-> out.dev, raised |-> FALSE, ingest_raised |-> out.raised]

(***************************************************************************)
(* The commands.  Each computes what it publishes, awaits publish(), and   *)
(* then assigns the attributes.  A command is a record of its kind and  *)
(* its argument; Prepared(d, c) is what it computes before the await.     *)
(***************************************************************************)
\* speed_mapping.get(fan_mode, "0") in async_set_fan_mode
SpeedValue(fan_mode) ==
    IF fan_mode = <<"O", "f", "f">> THEN <<"0">>
    ELSE IF fan_mode \in attr_fan_modes THEN Tail(fan_mode)
    ELSE <<"0">>

\* preset_mapping.get(preset_mode, "1") in async_set_preset_mode
PresetValue(preset_mode) ==
    CASE preset_mode = PRESET_COMFORT -> <<"1">>
      [] preset_mode = PRESET_AUTO -> <<"2">>
      [] preset_mode = PRESET_SLEEP -> <<"3">>
      [] preset_mode = PRESET_BOOST -> <<"4">>
      [] preset_mode = PRESET_ECO -> <<"5">>
      [] OTHER -> <<"1">>

\* whether the command publishes at all: async_set_temperature does nothing for
\* a missing or zero temperature (line 266)
Publishes(c) ==
    c.kind = "temperature" => (c.temperature # <<>> /\ c.temperature[1] # 0)

\* the locals a command computes before it awaits publish()
Prepared(d, c) ==
    CASE c.kind = "hvac" ->
            LET mode_to_set == IF c.hvac_mode = HVAC_OFF THEN 0
                               ELSE IF d.current_mode > 0 THEN d.current_mode ELSE 1
            IN [what |-> "mode", payload |-> IntToStr(mode_to_set), mode |-> mode_to_set]
      [] c.kind = "preset" ->
            [what |-> "mode", payload |-> PresetValue(c.preset_mode), mode |-> 0]
      [] c.kind = "fan" ->
            [what |-> "speed", payload |-> SpeedValue(c.fan_mode), mode |-> 0]
      [] c.kind = "temperature" ->
            [what |-> "temperature", payload |-> IntToStr(TruncTenths(c.temperature[1])), mode |-> 0]

\* the assignments after the await, with the power-off leaving _current_mode alone
Assigned_OffKeepsMode(d, c, prepared) ==
    CASE c.kind = "hvac" ->
            IF c.hvac_mode = HVAC_OFF
            THEN [d EXCEPT !.hvac_mode = HVAC_OFF,
                           !.preset_mode = PRESET_NONE]
            ELSE [d EXCEPT !.hvac_mode = HVAC_FAN_ONLY,
                           !.current_mode = prepared.mode,
                           !.preset_mode = PresetOfMode(prepared.mode, @)]
      [] c.kind = "preset" ->
            [d EXCEPT !.preset_mode = c.preset_mode,
                      !.hvac_mode = HVAC_FAN_ONLY,
                      !.current_mode = ParseInt(prepared.payload).value]
      [] c.kind = "fan" ->
            [d EXCEPT !.fan_mode = <<c.fan_mode>>,
                      !.current_speed = <<prepared.payload>>]
      [] c.kind = "temperature" ->
            [d EXCEPT !.target_temperature = c.temperature[1]]

\* the assignments after the await, whatever publish() returned
Assigned(d, c, prepared) ==
    CASE c.kind = "hvac" ->
            IF c.hvac_mode = HVAC_OFF
            THEN [d EXCEPT !.hvac_mode = HVAC_OFF,
                           !.current_mode = 0,
                           !.preset_mode = PRESET_NONE]
            ELSE [d EXCEPT !.hvac_mode = HVAC_FAN_ONLY,
                           !.current_mode = prepared.mode,
                           !.preset_mode = PresetOfMode(prepared.mode, @)]
      [] c.kind = "preset" ->
            [d EXCEPT !.preset_mode = c.preset_mode,
                      !.hvac_mode = HVAC_FAN_ONLY,
                      !.current_mode = ParseInt(prepared.payload).value]
      [] c.kind = "fan" ->
            [d EXCEPT !.fan_mode = <<c.fan_mode>>,
                      !.current_speed = <<prepared.payload>>]
      [] c.kind = "temperature" ->
            [d EXCEPT !.target_temperature = c.temperature[1]]

(***************************************************************************)
(* Inputs the environment draws from.                                      *)
(***************************************************************************)
TopicAB == <<"a", "/", "b">>
TopicAC == <<"a", "/", "c">>
PatternAPlus == <<"a", "/", "+">>
Topics == {TopicAB, TopicAC}
\* the messages the broker delivers
Messages == {<<TopicAB, <<"0">>>>, <<TopicAC, <<"1">>>>}
Patterns == {TopicAB, PatternAPlus}
Handlers == {"h1", "h2"}
Payloads == {<<"0">>, <<"1">>}
ClientIds == 1..MaxClients

\* the arguments _topic_matches is called with: up to MaxSegs segments joined by
\* "/", of a pattern or of a topic
MatchSegs == {<<"a">>, <<"b">>, <<>>}
RECURSIVE TopicsOf(_)
TopicsOf(n) ==
    IF n = 1 THEN MatchSegs
    ELSE {t \o <<"/">> \o g : t \in TopicsOf(n - 1), g \in MatchSegs}
RECURSIVE PatternsOf(_)
PatternsOf(n) ==
    IF n = 1 THEN MatchSegs \cup {<<"+">>, <<"#">>}
    ELSE {t \o <<"/">> \o g : t \in PatternsOf(n - 1), g \in MatchSegs \cup {<<"+">>, <<"#">>}}
MatchTopics == UNION {TopicsOf(n) : n \in 1..MaxSegs}
MatchPatterns == UNION {PatternsOf(n) : n \in 1..MaxSegs}

\* config_entry.data[CONF_CLIENT_ID]
ClientNames == {<<"c", "1">>, <<"m", "o", "d", "e", "1">>}
ModePayloads == {<<"0">>, <<"1">>, <<"2">>, <<"3">>, <<"4">>, <<"5">>, <<"7">>, <<"-", "1">>, <<"x">>}
SpeedPayloads == {<<"0">>, <<"3">>, <<"9">>, <<"S", "2">>, <<"z">>}
TemperaturePayloads == {<<"2", "1">>, <<"2", "1", ".", "5">>, <<"3", "0">>, <<"x">>}
CurrentTempPayloads == {<<"1", "9", ".", "5">>, <<"x">>}
\* the messages the handler is called with
EntityMessages(prefix) ==
    ({StateTopics(prefix).mode} \X ModePayloads)
    \cup ({StateTopics(prefix).speed} \X SpeedPayloads)
    \cup ({StateTopics(prefix).temperature} \X TemperaturePayloads)
    \cup ({StateTopics(prefix).current_temp} \X CurrentTempPayloads)
\* the arguments the host calls the commands with
PresetArgs == {PRESET_COMFORT, PRESET_AUTO, PRESET_NONE, "turbo"}
FanArgs == {<<"O", "f", "f">>, <<"S", "3">>, <<"X">>}
TemperatureArgs == {<<>>, <<215>>, <<210>>}

VARIABLES
    \* ---- BalluMQTTClient fields
    client,                 \* self.client: 0 is None, else the id of the paho client
    connected,              \* self.connected
    subscriptions,          \* self.subscriptions: the dict, in insertion order
    message_queue,          \* self._message_queue
    message_processor_task, \* self._message_processor_task: 0 is None
    \* ---- the paho clients and asyncio tasks this object has created
    link,                   \* per client: "none", "connecting", "up", "down"
    loop_running,           \* per client: its network thread (loop_start) runs
    broker_subs,            \* per client: patterns subscribed at the broker
    drops,                  \* broker drops so far
    tasks,                  \* per task: state and the locals of _process_messages
    ready,                  \* handler calls scheduled with call_soon_threadsafe
    sub_jobs,               \* broker subscribe jobs scheduled by subscribe()
    \* ---- the application coroutine inside connect() / disconnect()
    pc, waits, connect_result,
    \* ---- publish()
    pub,                    \* the write publish() awaits, if any
    pub_result,             \* what the latest publish() returned
    wire,                   \* the latest message client.publish() was called with
                            \* and returned normally for
    \* ---- history
    invoked,                \* the latest handler invocation: what ran, what was scheduled
    pushed, dropped,        \* _on_message calls; of these, dropped on QueueFull
    nsubs, dcalls, dreturns, npubs,
    rebound,                \* the patterns subscribe() was called for again, each
                            \* with the handler of the latest call
    fence,                  \* scheduled calls that run before disconnect() resumes
    quiesced,               \* disconnect() has returned, connect() not called since
    late,                   \* a handler ran after disconnect() returned
    \* ---- _on_connect and subscribe() taken one statement at a time
    replaying,              \* the for loop of _on_connect under way, if any: its
                            \* client, the index it reads next, the size of the
                            \* dict when the iteration began
    subscribing,            \* the topic of a subscribe() call between its dict
                            \* assignment and its read of self.connected, if any
    \* ---- BalluASP100Breezer
    topic_prefix,           \* self._topic_prefix
    dev,                    \* the attributes set in __init__
    cmd,                    \* the command awaiting publish(), if any: its arguments,
                            \* what it computed, and esteps when it was called
    recent,                 \* the latest entity step: the command that ended or
                            \* the message that was handled
    fault,                  \* an exception has left an _update_*_from_payload method
    esteps,                 \* messages handled and commands called so far
    \* ---- a call of _topic_matches on its own
    match_in,               \* its arguments
    match_out               \* <<v>> once it has returned v, <<>> before

transport_vars ==
    <<client, connected, subscriptions, message_queue, message_processor_task,
      link, loop_running, broker_subs, drops, tasks, ready, sub_jobs,
      pc, waits, connect_result, pub, pub_result, wire,
      invoked, pushed, dropped, nsubs, dcalls, dreturns, npubs, rebound,
      fence, quiesced, late, replaying, subscribing>>

entity_vars == <<topic_prefix, dev, cmd, recent, fault, esteps>>

matcher_vars == <<match_in, match_out>>

vars == <<transport_vars, entity_vars, matcher_vars>>

NoTask == [state |-> "none", topic |-> <<>>, payload |-> <<>>, callback |-> None]

\* BalluMQTTClient.__init__
TransportInit ==
    /\ client = 0
    /\ connected = FALSE
    /\ subscriptions = <<>>
    /\ message_queue = <<>>
    /\ message_processor_task = 0
    /\ link = [c \in ClientIds |-> "none"]
    /\ loop_running = [c \in ClientIds |-> FALSE]
    /\ broker_subs = [c \in ClientIds |-> {}]
    /\ drops = 0
    /\ tasks = [t \in ClientIds |-> NoTask]
    /\ ready = <<>>
    /\ sub_jobs = {}
    /\ pc = "idle"
    /\ waits = 0
    /\ connect_result = None
    /\ pub = <<>>
    /\ pub_result = None
    /\ wire = <<>>
    /\ invoked = <<>>
    /\ pushed = 0
    /\ dropped = 0
    /\ nsubs = 0
    /\ rebound = {}
    /\ dcalls = 0
    /\ dreturns = 0
    /\ npubs = 0
    /\ fence = 0
    /\ quiesced = FALSE
    /\ late = FALSE
    /\ replaying = <<>>
    /\ subscribing = <<>>

(***************************************************************************)
(* Frames: what each action leaves alone.                                  *)
(***************************************************************************)
clients_vars == <<link, loop_running, broker_subs, drops>>
relay_vars == <<message_queue, tasks, ready, invoked, pushed, dropped, late>>
call_vars == <<pc, waits, connect_result, dcalls, dreturns, fence, quiesced>>
publish_vars == <<pub, pub_result, wire, npubs>>
registry_vars == <<subscriptions, sub_jobs, nsubs, rebound>>
step_vars == <<replaying, subscribing>>

(***************************************************************************)
(* BalluMQTTClient.connect                                                 *)
(***************************************************************************)
\* lines 28-35: self.client = mqtt.Client(), up to the first await
ConnectBegin ==
    /\ pc = "idle"
    /\ client < MaxClients
    /\ client' = client + 1
    /\ pc' = "c_dial"
    /\ connect_result' = None
    /\ quiesced' = FALSE
    /\ UNCHANGED <<connected, message_processor_task, waits, dcalls, dreturns, fence>>
    /\ UNCHANGED <<clients_vars, relay_vars, publish_vars, registry_vars>>
    /\ UNCHANGED <<step_vars, entity_vars, matcher_vars>>

\* connect() returns False from its except clause
ConnectFailed ==
    /\ pc' = "idle"
    /\ connect_result' = False
    /\ UNCHANGED <<client, connected, message_processor_task, waits, dcalls, dreturns,
                   fence, quiesced>>
    /\ UNCHANGED <<clients_vars, relay_vars, publish_vars, registry_vars>>

\* lines 35-53: the executor jobs have ended: _setup_tls, then
\* client.connect(host, port, 60); client.loop_start(). An exception in either
\* takes connect() to its except clause.
ConnectDial(outcome) ==
    /\ pc = "c_dial"
    /\ IF outcome = "ok"
       THEN /\ link' = [link EXCEPT ![client] = "connecting"]
            /\ loop_running' = [loop_running EXCEPT ![client] = TRUE]
            /\ pc' = "c_task"
            /\ UNCHANGED <<client, connected, message_processor_task, waits,
                           connect_result, dcalls, dreturns, fence, quiesced>>
            /\ UNCHANGED <<broker_subs, drops>>
            /\ UNCHANGED <<relay_vars, publish_vars, registry_vars>>
       ELSE ConnectFailed
    /\ UNCHANGED <<step_vars, entity_vars, matcher_vars>>

\* connect() returns whether it saw self.connected
ConnectReturn(value) ==
    /\ pc' = "idle"
    /\ connect_result' = value
    /\ waits' = 0

\* lines 56-65: create_task(self._process_messages()), then the first turn of the
\* wait loop
ConnectStartTask ==
    /\ pc = "c_task"
    /\ message_processor_task' = client
    /\ tasks' = [tasks EXCEPT ![client] = [NoTask EXCEPT !.state = "waiting"]]
    /\ IF connected
       THEN ConnectReturn(True)
       ELSE /\ pc' = "c_wait"
            /\ waits' = 1
            /\ UNCHANGED connect_result
    /\ UNCHANGED <<client, connected, dcalls, dreturns, fence, quiesced>>
    /\ UNCHANGED <<message_queue, ready, invoked, pushed, dropped, late>>
    /\ UNCHANGED <<clients_vars, publish_vars, registry_vars>>
    /\ UNCHANGED <<step_vars, entity_vars, matcher_vars>>

\* lines 61-68: asyncio.sleep(0.5) is over; the next turn of the loop, or the
\* timeout after the last one
ConnectPoll ==
    /\ pc = "c_wait"
    /\ IF waits = ConnectWaitIters
       THEN ConnectReturn(False)
       ELSE IF connected
            THEN ConnectReturn(True)
            ELSE /\ waits' = waits + 1
                 /\ UNCHANGED <<pc, connect_result>>
    /\ UNCHANGED <<client, connected, message_processor_task, dcalls, dreturns,
                   fence, quiesced>>
    /\ UNCHANGED <<clients_vars, relay_vars, publish_vars, registry_vars>>
    /\ UNCHANGED <<step_vars, entity_vars, matcher_vars>>

(***************************************************************************)
(* The hooks, called on the network thread of client c.                    *)
(***************************************************************************)
\* the keys of self.subscriptions
RegisteredPatterns == {subscriptions[i].topic : i \in 1..Len(subscriptions)}

\* _on_connect without the replay of the registry
OnConnect_NoReplay(c, rc) ==
    /\ loop_running[c]
    /\ link[c] = "connecting"
    /\ IF rc = 0
       THEN /\ connected' = TRUE
            /\ link' = [link EXCEPT ![c] = "up"]
       ELSE /\ connected' = FALSE
            /\ link' = [link EXCEPT ![c] = "down"]
    /\ UNCHANGED <<client, message_processor_task, loop_running, broker_subs, drops>>
    /\ UNCHANGED <<relay_vars, call_vars, publish_vars, registry_vars>>
    /\ UNCHANGED <<step_vars, entity_vars, matcher_vars>>

\* BalluMQTTClient._on_connect
OnConnect(c, rc) ==
    /\ loop_running[c]
    /\ link[c] = "connecting"
    /\ IF rc = 0
       THEN /\ connected' = TRUE
            /\ link' = [link EXCEPT ![c] = "up"]
            /\ broker_subs' = [broker_subs EXCEPT ![c] = @ \cup RegisteredPatterns]
       ELSE /\ connected' = FALSE
            /\ link' = [link EXCEPT ![c] = "down"]
            /\ UNCHANGED broker_subs
    /\ UNCHANGED <<client, message_processor_task, loop_running, drops>>
    /\ UNCHANGED <<relay_vars, call_vars, publish_vars, registry_vars>>
    /\ UNCHANGED <<step_vars, entity_vars, matcher_vars>>

\* BalluMQTTClient._on_disconnect: the broker dropped the connection
OnDisconnect(c) ==
    /\ loop_running[c]
    /\ link[c] = "up"
    /\ drops < MaxDrops
    /\ connected' = FALSE
    /\ link' = [link EXCEPT ![c] = "down"]
    /\ broker_subs' = [broker_subs EXCEPT ![c] = {}]
    /\ drops' = drops + 1
    /\ UNCHANGED <<client, message_processor_task, loop_running>>
    /\ UNCHANGED <<relay_vars, call_vars, publish_vars, registry_vars>>
    /\ UNCHANGED <<step_vars, entity_vars, matcher_vars>>

\* the network loop started by loop_start() dials again after a drop
Reconnect(c) ==
    /\ loop_running[c]
    /\ link[c] = "down"
    /\ link' = [link EXCEPT ![c] = "connecting"]
    /\ UNCHANGED <<client, connected, message_processor_task, loop_running,
                   broker_subs, drops>>
    /\ UNCHANGED <<relay_vars, call_vars, publish_vars, registry_vars>>
    /\ UNCHANGED <<step_vars, entity_vars, matcher_vars>>

\* asyncio.Queue.full()
QueueFull(q) == QueueMaxSize > 0 /\ Len(q) >= QueueMaxSize

\* BalluMQTTClient._on_message
OnMessage(c, topic, payload) ==
    /\ loop_running[c]
    /\ link[c] = "up"
    /\ broker_subs[c] # {}
    /\ pushed < MaxMsgs
    /\ pushed' = pushed + 1
    /\ IF QueueFull(message_queue)
       THEN /\ dropped' = dropped + 1
            /\ UNCHANGED message_queue
       ELSE /\ message_queue' = Append(message_queue,
                    [topic |-> topic, payload |-> payload, stamp |-> dcalls])
            /\ UNCHANGED dropped
    /\ UNCHANGED <<client, connected, message_processor_task, tasks, ready, invoked, late>>
    /\ UNCHANGED <<clients_vars, call_vars, publish_vars, registry_vars>>
    /\ UNCHANGED <<step_vars, entity_vars, matcher_vars>>

(***************************************************************************)
(* BalluMQTTClient.subscribe                                               *)
(***************************************************************************)
\* self.subscriptions[topic] = callback: a known key keeps its place in the dict
DictSet(d, topic, callback) ==
    IF \E i \in 1..Len(d) : d[i].topic = topic
    THEN [i \in 1..Len(d) |->
            IF d[i].topic = topic THEN [topic |-> topic, callback |-> callback] ELSE d[i]]
    ELSE Append(d, [topic |-> topic, callback |-> callback])

Subscribe(topic, callback) ==
    /\ nsubs < MaxSubs
    /\ nsubs' = nsubs + 1
    /\ subscriptions' = DictSet(subscriptions, topic, callback)
    /\ rebound' = IF topic \in RegisteredPatterns
                  THEN {r \in rebound : r.topic # topic}
                       \cup {[topic |-> topic, callback |-> callback]}
                  ELSE rebound
    /\ IF connected /\ client # 0
       THEN sub_jobs' = sub_jobs \cup {topic}
       ELSE UNCHANGED sub_jobs
    /\ UNCHANGED <<client, connected, message_processor_task>>
    /\ UNCHANGED <<clients_vars, relay_vars, call_vars, publish_vars>>
    /\ UNCHANGED <<step_vars, entity_vars, matcher_vars>>

\* the job _subscribe scheduled by subscribe(): self.client.subscribe(topic), on
\* the client self.client names when the job runs
SubscribeJob(topic) ==
    /\ topic \in sub_jobs
    /\ sub_jobs' = sub_jobs \ {topic}
    /\ IF link[client] = "up"
       THEN broker_subs' = [broker_subs EXCEPT ![client] = @ \cup {topic}]
       ELSE UNCHANGED broker_subs
    /\ UNCHANGED <<client, connected, message_processor_task, link, loop_running, drops,
                   subscriptions, nsubs, rebound>>
    /\ UNCHANGED <<relay_vars, call_vars, publish_vars>>
    /\ UNCHANGED <<step_vars, entity_vars, matcher_vars>>

(***************************************************************************)
(* _on_connect on the network thread and subscribe() on the event loop,    *)
(* one statement at a time: a thread switch can fall between any two.      *)
(***************************************************************************)
\* lines 107-113 and 115-118: self.connected is set, the for statement takes an
\* iterator of self.subscriptions
OnConnectBegin(c, rc) ==
    /\ loop_running[c]
    /\ link[c] = "connecting"
    /\ replaying = <<>>
    /\ IF rc = 0
       THEN /\ connected' = TRUE
            /\ link' = [link EXCEPT ![c] = "up"]
            /\ replaying' = <<[client |-> c, at |-> 1, used |-> Len(subscriptions)]>>
       ELSE /\ connected' = FALSE
            /\ link' = [link EXCEPT ![c] = "down"]
            /\ UNCHANGED replaying
    /\ UNCHANGED <<client, message_processor_task, loop_running, broker_subs, drops>>
    /\ UNCHANGED <<relay_vars, call_vars, publish_vars, registry_vars>>
    /\ UNCHANGED <<subscribing, entity_vars, matcher_vars>>

\* lines 113-114, one turn of the loop: the iterator raises RuntimeError when the
\* dict has changed size since the iteration began, and the exception leaves the
\* hook; the network thread goes on or ends with it, as the client library
\* decides
OnConnectNext ==
    /\ replaying # <<>>
    /\ LET r == replaying[1] IN
       IF Len(subscriptions) # r.used
       THEN /\ replaying' = <<>>
            /\ \E alive \in BOOLEAN :
                  loop_running' = [loop_running EXCEPT ![r.client] = alive]
            /\ UNCHANGED broker_subs
       ELSE IF r.at > Len(subscriptions)
       THEN /\ replaying' = <<>>
            /\ UNCHANGED <<loop_running, broker_subs>>
       ELSE /\ replaying' = <<[r EXCEPT !.at = @ + 1]>>
            /\ broker_subs' = [broker_subs EXCEPT
                                  ![r.client] = @ \cup {subscriptions[r.at].topic}]
            /\ UNCHANGED loop_running
    /\ UNCHANGED <<client, connected, message_processor_task, link, drops>>
    /\ UNCHANGED <<relay_vars, call_vars, publish_vars, registry_vars>>
    /\ UNCHANGED <<subscribing, entity_vars, matcher_vars>>

\* line 162: self.subscriptions[topic] = callback
SubscribeBegin(topic, callback) ==
    /\ subscribing = <<>>
    /\ nsubs < MaxSubs
    /\ nsubs' = nsubs + 1
    /\ subscriptions' = DictSet(subscriptions, topic, callback)
    /\ rebound' = IF topic \in RegisteredPatterns
                  THEN {r \in rebound : r.topic # topic}
                       \cup {[topic |-> topic, callback |-> callback]}
                  ELSE rebound
    /\ subscribing' = <<topic>>
    /\ UNCHANGED <<client, connected, message_processor_task, sub_jobs>>
    /\ UNCHANGED <<clients_vars, relay_vars, call_vars, publish_vars>>
    /\ UNCHANGED <<replaying, entity_vars, matcher_vars>>

\* lines 164-170: if self.connected, the job _subscribe goes to the executor
SubscribeCheck ==
    /\ subscribing # <<>>
    /\ subscribing' = <<>>
    /\ IF connected /\ client # 0
       THEN sub_jobs' = sub_jobs \cup {subscribing[1]}
       ELSE UNCHANGED sub_jobs
    /\ UNCHANGED <<client, connected, message_processor_task, subscriptions, nsubs,
                   rebound>>
    /\ UNCHANGED <<clients_vars, relay_vars, call_vars, publish_vars>>
    /\ UNCHANGED <<replaying, entity_vars, matcher_vars>>

(***************************************************************************)
(* BalluMQTTClient._process_messages, run by task t.                       *)
(*                                                                         *)
(* topic, payload and callback are locals of the coroutine; the lambda     *)
(* handed to call_soon_threadsafe reads them when it runs.  The coroutine  *)
(* gives up the event loop only when the queue is empty, so one step takes *)
(* every queued event.                                                     *)
(***************************************************************************)
RECURSIVE CallsFor(_, _, _)
\* lines 141-146 for one event ev: one scheduled call per matching entry, from
\* entry i on
CallsFor(t, ev, i) ==
    IF i > Len(subscriptions) THEN <<>>
    ELSE (IF topic_matches(subscriptions[i].topic, ev.topic)
          THEN <<[task |-> t, stamp |-> ev.stamp,
                  want |-> [callback |-> subscriptions[i].callback,
                            topic |-> ev.topic, payload |-> ev.payload]]>>
          ELSE <<>>) \o CallsFor(t, ev, i + 1)

RECURSIVE CallsForQueue(_, _)
CallsForQueue(t, q) ==
    IF q = <<>> THEN <<>> ELSE CallsFor(t, Head(q), 1) \o CallsForQueue(t, Tail(q))

\* the locals after the loop body has run for ev
FrameAfter(frame, ev) ==
    [frame EXCEPT !.topic = ev.topic,
                  !.payload = ev.payload,
                  !.callback = IF subscriptions = <<>> THEN @
                               ELSE subscriptions[Len(subscriptions)].callback]

HasCallOf(t) == \E i \in 1..Len(ready) : ready[i].task = t

ProcessMessages(t) ==
    /\ tasks[t].state = "waiting"
    /\ message_queue # <<>>
    /\ ~HasCallOf(t)
    /\ ready' = ready \o CallsForQueue(t, message_queue)
    /\ tasks' = [tasks EXCEPT ![t] = FrameAfter(@, message_queue[Len(message_queue)])]
    /\ message_queue' = <<>>
    /\ UNCHANGED <<client, connected, message_processor_task, invoked, pushed, dropped, late>>
    /\ UNCHANGED <<clients_vars, call_vars, publish_vars, registry_vars>>
    /\ UNCHANGED <<step_vars, entity_vars, matcher_vars>>

\* what the scheduled lambda calls: callback(topic, payload), read from the frame
LambdaCall(call) ==
    [callback |-> tasks[call.task].callback,
     topic |-> tasks[call.task].topic,
     payload |-> tasks[call.task].payload]

\* the event loop runs the oldest scheduled handler call
RunCallback ==
    /\ ready # <<>>
    /\ invoked' = <<[want |-> Head(ready).want, got |-> LambdaCall(Head(ready))]>>
    /\ ready' = Tail(ready)
    /\ late' = (late \/ quiesced \/ Head(ready).stamp < dreturns)
    /\ fence' = IF fence > 0 THEN fence - 1 ELSE 0
    /\ UNCHANGED <<client, connected, message_processor_task, message_queue, tasks,
                   pushed, dropped>>
    /\ UNCHANGED <<pc, waits, connect_result, dcalls, dreturns, quiesced>>
    /\ UNCHANGED <<clients_vars, publish_vars, registry_vars>>
    /\ UNCHANGED <<step_vars, entity_vars, matcher_vars>>

\* lines 150-151: the cancelled task leaves its loop; calls it scheduled earlier
\* are ahead of its wake-up in the event loop
TaskExit(t) ==
    /\ tasks[t].state = "cancelling"
    /\ ~HasCallOf(t)
    /\ tasks' = [tasks EXCEPT ![t].state = "done"]
    /\ UNCHANGED <<client, connected, message_processor_task, message_queue, ready,
                   invoked, pushed, dropped, late>>
    /\ UNCHANGED <<clients_vars, call_vars, publish_vars, registry_vars>>
    /\ UNCHANGED <<step_vars, entity_vars, matcher_vars>>

(***************************************************************************)
(* BalluMQTTClient.disconnect                                              *)
(***************************************************************************)
\* disconnect() returns
DisconnectDone ==
    /\ pc' = "idle"
    /\ dreturns' = dreturns + 1
    /\ quiesced' = TRUE

\* lines 91-98, up to the first await
DisconnectBegin ==
    /\ pc = "idle"
    /\ dcalls < MaxDisconnects
    /\ dcalls' = dcalls + 1
    /\ IF message_processor_task # 0 /\ tasks[message_processor_task].state = "waiting"
       THEN /\ tasks' = [tasks EXCEPT ![message_processor_task].state = "cancelling"]
            /\ pc' = "d_task"
            /\ UNCHANGED <<dreturns, quiesced>>
       ELSE /\ UNCHANGED tasks
            /\ IF client # 0
               THEN /\ pc' = "d_stop"
                    /\ UNCHANGED <<dreturns, quiesced>>
               ELSE DisconnectDone
    /\ UNCHANGED <<client, connected, message_processor_task, waits, connect_result, fence>>
    /\ UNCHANGED <<message_queue, ready, invoked, pushed, dropped, late>>
    /\ UNCHANGED <<clients_vars, publish_vars, registry_vars>>
    /\ UNCHANGED <<step_vars, entity_vars, matcher_vars>>

\* disconnect() going on after task.cancel() without the await of the task
DisconnectAwaited_NoWait ==
    /\ pc = "d_task"
    /\ pc' = "d_stop"
    /\ UNCHANGED <<client, connected, message_processor_task, waits, connect_result,
                   dcalls, dreturns, fence, quiesced>>
    /\ UNCHANGED <<clients_vars, relay_vars, publish_vars, registry_vars>>
    /\ UNCHANGED <<step_vars, entity_vars, matcher_vars>>

\* lines 94-98: await self._message_processor_task is over
DisconnectAwaited ==
    /\ pc = "d_task"
    /\ tasks[message_processor_task].state = "done"
    /\ pc' = "d_stop"
    /\ UNCHANGED <<client, connected, message_processor_task, waits, connect_result,
                   dcalls, dreturns, fence, quiesced>>
    /\ UNCHANGED <<clients_vars, relay_vars, publish_vars, registry_vars>>
    /\ UNCHANGED <<step_vars, entity_vars, matcher_vars>>

\* lines 99-103: the executor job client.loop_stop(); client.disconnect()
DisconnectStop ==
    /\ pc = "d_stop"
    /\ loop_running' = [loop_running EXCEPT ![client] = FALSE]
    /\ link' = [link EXCEPT ![client] = "none"]
    /\ broker_subs' = [broker_subs EXCEPT ![client] = {}]
    /\ pc' = "d_ret"
    /\ fence' = Len(ready)
    /\ UNCHANGED <<client, connected, message_processor_task, waits, connect_result,
                   dcalls, dreturns, quiesced, drops>>
    /\ UNCHANGED <<relay_vars, publish_vars, registry_vars>>
    /\ UNCHANGED <<step_vars, entity_vars, matcher_vars>>

\* line 104: self.connected = False, and the return
DisconnectReturn ==
    /\ pc = "d_ret"
    /\ fence = 0
    /\ connected' = FALSE
    /\ DisconnectDone
    /\ UNCHANGED <<client, message_processor_task, waits, connect_result, dcalls, fence>>
    /\ UNCHANGED <<clients_vars, relay_vars, publish_vars, registry_vars>>
    /\ UNCHANGED <<step_vars, entity_vars, matcher_vars>>

(***************************************************************************)
(* BalluMQTTClient.publish                                                 *)
(***************************************************************************)
\* publish() without the check of self.connected
PublishCheck_NoGuard(topic, payload) ==
    /\ pub' = <<[topic |-> topic, payload |-> payload]>>
    /\ pub_result' = None

\* lines 174-176: the check of self.connected; pub holds the pending write, if any
PublishCheck(topic, payload) ==
    IF ~connected
    THEN /\ pub_result' = False
         /\ UNCHANGED pub
    ELSE /\ pub' = <<[topic |-> topic, payload |-> payload]>>
         /\ pub_result' = None

\* lines 178-187: the executor job client.publish(...) has ended
PublishEnd(outcome) ==
    /\ pub' = <<>>
    /\ IF outcome = "ok"
       THEN /\ wire' = pub
            /\ pub_result' = True
       ELSE /\ pub_result' = False
            /\ UNCHANGED wire

PublishCall(topic, payload) ==
    /\ pub = <<>>
    /\ npubs < MaxPubs
    /\ npubs' = npubs + 1
    /\ PublishCheck(topic, payload)
    /\ UNCHANGED wire
    /\ UNCHANGED <<client, connected, message_processor_task>>
    /\ UNCHANGED <<clients_vars, relay_vars, call_vars, registry_vars>>
    /\ UNCHANGED <<step_vars, entity_vars, matcher_vars>>

PublishWrite(outcome) ==
    /\ pub # <<>>
    /\ PublishEnd(outcome)
    /\ UNCHANGED npubs
    /\ UNCHANGED <<client, connected, message_processor_task>>
    /\ UNCHANGED <<clients_vars, relay_vars, call_vars, registry_vars>>
    /\ UNCHANGED <<step_vars, entity_vars, matcher_vars>>

Outcomes == {"ok", "error"}
ReturnCodes == {0, 5}

(***************************************************************************)
(* The entity's steps.                                                     *)
(***************************************************************************)
EntityInit(client_id) ==
    /\ topic_prefix = TopicPrefix(client_id)
    /\ dev = InitialEntity
    /\ cmd = <<>>
    /\ recent = <<>>
    /\ fault = FALSE
    /\ esteps = 0

\* the transport runs message_received(topic, payload)
MessageReceived(topic, payload) ==
    /\ esteps < MaxSteps
    /\ esteps' = esteps + 1
    /\ dev' = message_received(dev, topic, payload).dev
    /\ fault' = (fault \/ message_received(dev, topic, payload).ingest_raised)
    /\ recent' = <<[kind |-> "message", hvac_mode |-> "", what |-> Route(topic),
                     payload |-> payload, found_mode |-> dev.current_mode,
                     after_off |-> <<>>]>>
    /\ UNCHANGED <<topic_prefix, cmd>>
    /\ UNCHANGED <<transport_vars, matcher_vars>>

\* what the command c that has just ended leaves in recent: what it handed to
\* publish(), the operating code it found, and for a power-on that directly
\* follows a power-off the operating code that power-off found
Ended(c, prepared) ==
    <<[kind |-> c.kind,
       hvac_mode |-> c.hvac_mode,
       what |-> prepared.what,
       payload |-> prepared.payload,
       found_mode |-> dev.current_mode,
       after_off |-> IF /\ c.kind = "hvac"
                        /\ c.hvac_mode = HVAC_FAN_ONLY
                        /\ recent # <<>>
                        /\ recent[1].kind = "hvac"
                        /\ recent[1].hvac_mode = HVAC_OFF
                     THEN <<recent[1].found_mode>>
                     ELSE <<>>]>>

\* a command up to its await of publish(); with the transport not connected
\* publish() returns at once and the command runs to its end
CommandCall(c) ==
    /\ cmd = <<>>
    /\ pub = <<>>
    /\ esteps < MaxSteps
    /\ esteps' = esteps + 1
    /\ IF ~Publishes(c)
       THEN UNCHANGED <<dev, cmd, recent, pub, pub_result>>
       ELSE LET prepared == Prepared(dev, c)
            IN /\ PublishCheck(ControlTopic(topic_prefix, prepared.what), prepared.payload)
               /\ IF connected
                  THEN /\ cmd' = <<[c |-> c, prepared |-> prepared, at |-> esteps']>>
                       /\ UNCHANGED <<dev, recent>>
                  ELSE /\ dev' = Assigned(dev, c, prepared)
                       /\ recent' = Ended(c, prepared)
                       /\ UNCHANGED cmd
    /\ UNCHANGED <<topic_prefix, fault, wire, npubs, step_vars, matcher_vars>>
    /\ UNCHANGED <<client, connected, message_processor_task>>
    /\ UNCHANGED <<clients_vars, relay_vars, call_vars, registry_vars>>

\* the command after its await: publish() has returned
CommandReturn(outcome) ==
    /\ cmd # <<>>
    /\ PublishEnd(outcome)
    /\ dev' = Assigned(dev, cmd[1].c, cmd[1].prepared)
    /\ recent' = Ended(cmd[1].c, cmd[1].prepared)
    /\ cmd' = <<>>
    /\ UNCHANGED <<topic_prefix, fault, esteps, npubs, step_vars, matcher_vars>>
    /\ UNCHANGED <<client, connected, message_processor_task>>
    /\ UNCHANGED <<clients_vars, relay_vars, call_vars, registry_vars>>

Command(kind, hvac_mode, preset_mode, fan_mode, temperature) ==
    [kind |-> kind, hvac_mode |-> hvac_mode, preset_mode |-> preset_mode,
     fan_mode |-> fan_mode, temperature |-> temperature]

\* async_set_hvac_mode(hvac_mode)
SetHvacMode(hvac_mode) == CommandCall(Command("hvac", hvac_mode, "", <<>>, <<>>))
\* async_set_preset_mode(preset_mode)
SetPresetMode(preset_mode) == CommandCall(Command("preset", "", preset_mode, <<>>, <<>>))
\* async_set_fan_mode(fan_mode)
SetFanMode(fan_mode) == CommandCall(Command("fan", "", "", fan_mode, <<>>))
\* async_set_temperature(temperature=...)
SetTemperature(temperature) == CommandCall(Command("temperature", "", "", <<>>, temperature))

\* no call of _topic_matches on its own
MatcherIdle ==
    /\ match_in = [subscription |-> <<>>, topic |-> <<>>]
    /\ match_out = <<>>

Init == TransportInit /\ EntityInit(<<"c", "1">>) /\ MatcherIdle

(***************************************************************************)
(* Spec: the connection lifecycle and the registry.                        *)
(***************************************************************************)
Connecting ==
    \/ \E o \in Outcomes : ConnectDial(o)
    \/ ConnectStartTask
    \/ ConnectPoll

NetworkHooks ==
    \/ \E c \in ClientIds, rc \in ReturnCodes : OnConnect(c, rc)
    \/ \E c \in ClientIds : OnDisconnect(c)
    \/ \E c \in ClientIds : Reconnect(c)

Disconnecting ==
    \/ DisconnectBegin
    \/ \E t \in ClientIds : TaskExit(t)
    \/ DisconnectAwaited
    \/ DisconnectStop
    \/ DisconnectReturn

Next ==
    \/ ConnectBegin
    \/ Connecting
    \/ NetworkHooks
    \/ Disconnecting
    \/ \E t \in Patterns, h \in Handlers : Subscribe(t, h)
    \/ \E t \in Patterns : SubscribeJob(t)

Spec == Init /\ [][Next]_vars

(***************************************************************************)
(* PublishSpec: publish() calls at any point of the lifecycle.             *)
(***************************************************************************)
PublishNext ==
    \/ Next
    \/ \E p \in Payloads : PublishCall(TopicAB, p)
    \/ \E o \in Outcomes : PublishWrite(o)

PublishSpec == Init /\ [][PublishNext]_vars

(***************************************************************************)
(* RelaySpec: the message relay over the first connection.                 *)
(***************************************************************************)
Relaying ==
    \/ \E c \in ClientIds, m \in Messages : OnMessage(c, m[1], m[2])
    \/ \E t \in ClientIds : ProcessMessages(t)
    \/ RunCallback

RelayNext ==
    \/ (client = 0 /\ ConnectBegin)
    \/ Connecting
    \/ NetworkHooks
    \/ \E t \in Patterns, h \in Handlers : Subscribe(t, h)
    \/ \E t \in Patterns : SubscribeJob(t)
    \/ Relaying

RelaySpec == Init /\ [][RelayNext]_vars

(***************************************************************************)
(* TeardownSpec: the relay across disconnect() and a later connect(), with *)
(* one handler registered for every topic.                                 *)
(***************************************************************************)
TeardownNext ==
    \/ ConnectBegin
    \/ Connecting
    \/ NetworkHooks
    \/ Disconnecting
    \/ Subscribe(PatternAPlus, "h1")
    \/ SubscribeJob(PatternAPlus)
    \/ Relaying

TeardownSpec == Init /\ [][TeardownNext]_vars
(***************************************************************************)
(* ResubscribeSpec: the relay over the first connection, with every        *)
(* subscribe() call made before the first message arrives.                 *)
(***************************************************************************)
ResubscribeNext ==
    \/ (client = 0 /\ ConnectBegin)
    \/ Connecting
    \/ NetworkHooks
    \/ \E t \in Patterns, h \in Handlers : (pushed = 0 /\ Subscribe(t, h))
    \/ \E t \in Patterns : SubscribeJob(t)
    \/ Relaying

ResubscribeSpec == Init /\ [][ResubscribeNext]_vars

(***************************************************************************)
(* ReplaySpec: subscribe() calls around the first connect(), with          *)
(* _on_connect and subscribe() taken one statement at a time.  The hooks   *)
(* of one client run on one thread, so no other hook runs inside           *)
(* _on_connect.                                                            *)
(***************************************************************************)
ReplayNext ==
    \/ (client = 0 /\ ConnectBegin)
    \/ Connecting
    \/ \E c \in ClientIds, rc \in ReturnCodes : OnConnectBegin(c, rc)
    \/ OnConnectNext
    \/ \E c \in ClientIds : (replaying = <<>> /\ OnDisconnect(c))
    \/ \E c \in ClientIds : Reconnect(c)
    \/ \E t \in Patterns, h \in Handlers : SubscribeBegin(t, h)
    \/ SubscribeCheck
    \/ \E t \in Patterns : SubscribeJob(t)

ReplaySpec == Init /\ [][ReplayNext]_vars

(***************************************************************************)
(* MatcherSpec: _topic_matches called once, on any pattern and topic.      *)
(***************************************************************************)
MatcherStart ==
    /\ TransportInit
    /\ EntityInit(<<"c", "1">>)
    /\ match_in \in [subscription : MatchPatterns, topic : MatchTopics]
    /\ match_out = <<>>

TopicMatches ==
    /\ match_out = <<>>
    /\ match_out' = <<topic_matches_value(match_in.subscription, match_in.topic)>>
    /\ UNCHANGED <<match_in, transport_vars, entity_vars>>

MatcherNext == TopicMatches

MatcherSpec == MatcherStart /\ [][MatcherNext]_vars

(***************************************************************************)
(* EntitySpec: the entity over one transport: state messages, the four     *)
(* commands and the connection coming and going under them.                *)
(***************************************************************************)
EntityStart == TransportInit /\ MatcherIdle /\ \E id \in ClientNames : EntityInit(id)

EntityNext ==
    \/ (client = 0 /\ ConnectBegin)
    \/ \E o \in Outcomes : ConnectDial(o)
    \/ NetworkHooks
    \/ \E m \in EntityMessages(topic_prefix) : MessageReceived(m[1], m[2])
    \/ \E h \in HvacModes : SetHvacMode(h)
    \/ \E p \in PresetArgs : SetPresetMode(p)
    \/ \E f \in FanArgs : SetFanMode(f)
    \/ \E t \in TemperatureArgs : SetTemperature(t)
    \/ \E o \in Outcomes : CommandReturn(o)

EntitySpec == EntityStart /\ [][EntityNext]_vars


(***************************************************************************)
(* Properties of the transport.                                            *)
(***************************************************************************)

\* C1: every scheduled handler call runs the handler whose pattern matched, with
\* the topic and payload of the event it was scheduled for.
C1_HandlerGetsItsOwnEvent ==
    \A i \in 1..Len(invoked) : invoked[i].got = invoked[i].want

\* C2: no handler runs once disconnect() has returned, and none runs later for an
\* event that arrived before a disconnect() call.
C2_NoHandlerAfterDisconnect == ~late

\* C3: the relay has a capacity N: never more than N events are pending, and of
\* N+1 pushes with nothing consumed exactly one was dropped.
C3_RelayBounded ==
    \E N \in 1..(MaxMsgs - 1) :
        /\ Len(message_queue) <= N
        /\ (pushed = N + 1 /\ Len(message_queue) + dropped = pushed) => dropped = 1

\* C4: an on-connect with return code 0 sets connected and subscribes the client
\* at the broker to every registered pattern; the on-disconnect hook and
\* disconnect() clear connected; no step removes a pattern from the registry.
C4_ReplayOnConnect ==
    [][ /\ \A c \in ClientIds :
            (link[c] = "connecting" /\ link'[c] = "up")
                => (connected' /\ RegisteredPatterns \subseteq broker_subs'[c])
        /\ \A c \in ClientIds :
            (link[c] = "up" /\ link'[c] = "down") => ~connected'
        /\ (dreturns' # dreturns) => ~connected'
        /\ RegisteredPatterns \subseteq RegisteredPatterns'
      ]_vars

\* C4 witness: after a broker drop and a reconnect, with two patterns registered
C4_Witness ==
    \E c \in ClientIds :
        /\ drops > 0
        /\ link[c] = "up"
        /\ connected
        /\ Len(subscriptions) = 2
        /\ RegisteredPatterns \subseteq broker_subs[c]

\* C9: publish() called while not connected returns False, starts no write and
\* leaves connected, the registry and the relay alone; called while connected it
\* starts the write, and it returns True only for a write that ended without error.
C9_PublishNeedsConnection ==
    [][ /\ (npubs' # npubs /\ ~connected)
            => /\ pub_result' = False
               /\ pub' = <<>>
               /\ UNCHANGED <<wire, connected, subscriptions, message_queue>>
        /\ (npubs' # npubs /\ connected)
            => (pub' # <<>> /\ pub_result' = None /\ wire' = wire)
        /\ (pub_result # True /\ pub_result' = True)
            => (pub # <<>> /\ wire' = pub)
      ]_vars

\* C9 witness: a publish() refused on a transport that has a client but is not
\* connected
C9_Witness ==
    /\ npubs > 0
    /\ pub_result = False
    /\ wire = <<>>
    /\ client # 0
    /\ ~connected

\* C10: from the return of disconnect() until connect() is called again the
\* transport is not connected.
C10_DisconnectSettles == quiesced => ~connected

(***************************************************************************)
(* Properties of the entity.                                               *)
(***************************************************************************)
\* power, operatingCode, preset, fanSpeedCode, fan label, target temperature
Semantic(d) ==
    <<d.hvac_mode, d.current_mode, d.preset_mode, d.current_speed, d.fan_mode,
      d.target_temperature>>

\* C5: a power-on that directly follows a power-off issued at a non-zero operating
\* code c hands c to publish() and leaves the operating code at c.
C5_PowerOnRestoresMode ==
    (/\ recent # <<>>
     /\ recent[1].after_off # <<>>
     /\ recent[1].after_off[1] # 0)
        => /\ recent[1].payload = IntToStr(recent[1].after_off[1])
           /\ dev.current_mode = recent[1].after_off[1]

\* C6: a state message that directly follows a command, arrives on the state topic
\* of what the command set and carries the payload the command published, leaves
\* power, operating code, preset, fan speed code, fan label and target
\* temperature as the command left them.
C6_RoundTrip ==
    [][ \A m \in EntityMessages(topic_prefix) :
            (/\ recent # <<>>
             /\ recent[1].kind # "message"
             /\ cmd = <<>>
             /\ m[1] = StateTopics(topic_prefix)[recent[1].what]
             /\ Route(m[1]) = recent[1].what
             /\ m[2] = recent[1].payload
             /\ MessageReceived(m[1], m[2]))
                => Semantic(dev') = Semantic(dev)
      ]_vars

\* C7: a message routed to _update_mode_from_payload whose payload is an integer n
\* sets the operating code to n, power to off for 0 and on otherwise, and the
\* preset to comfort, auto, sleep, boost, eco for 1..5 and none for any other n;
\* a payload that is no integer leaves the three alone; no exception leaves the
\* method.  (The step that handles a message is the one that counts it in esteps
\* and records it in recent.)
C7_IngestMode ==
    [][ (/\ esteps' # esteps
         /\ recent' # <<>>
         /\ recent'[1].kind = "message"
         /\ recent'[1].what = "mode")
            => /\ ~fault'
               /\ IF ParseInt(recent'[1].payload).ok
                  THEN LET n == ParseInt(recent'[1].payload).value
                       IN /\ dev'.current_mode = n
                          /\ dev'.hvac_mode = (IF n = 0 THEN HVAC_OFF ELSE HVAC_FAN_ONLY)
                          /\ dev'.preset_mode =
                                (CASE n = 1 -> PRESET_COMFORT
                                   [] n = 2 -> PRESET_AUTO
                                   [] n = 3 -> PRESET_SLEEP
                                   [] n = 4 -> PRESET_BOOST
                                   [] n = 5 -> PRESET_ECO
                                   [] OTHER -> PRESET_NONE)
                  ELSE /\ dev'.current_mode = dev.current_mode
                       /\ dev'.hvac_mode = dev.hvac_mode
                       /\ dev'.preset_mode = dev.preset_mode
      ]_vars

\* C7 witness: a mode message with a payload that is no integer has just been
\* handled, and the entity still shows what the mode message "2" before it set
C7_Witness ==
    /\ recent # <<>>
    /\ recent[1].kind = "message"
    /\ recent[1].what = "mode"
    /\ ~ParseInt(recent[1].payload).ok
    /\ dev.state_received.mode
    /\ dev.current_mode = 2
    /\ dev.hvac_mode = HVAC_FAN_ONLY
    /\ dev.preset_mode = PRESET_AUTO
    /\ ~fault

\* C8: a command whose publish() returned False, for a write that failed or for a
\* transport that is not connected, leaves power, operating code, preset, fan
\* speed code, fan label and target temperature as they were.
C8_FailedCommandKeepsState ==
    [][ /\ (cmd # <<>> /\ cmd' = <<>> /\ pub_result' = False)
            => Semantic(dev') = Semantic(dev)
        /\ (/\ cmd = <<>>
            /\ ~connected
            /\ recent' # recent
            /\ recent' # <<>>
            /\ recent'[1].kind # "message")
                => Semantic(dev') = Semantic(dev)
      ]_vars

(***************************************************************************)
(* Properties of connect(), the registry and the topic matcher.            *)
(***************************************************************************)
\* C11: while the latest connect() has returned False and connect() has not been
\* called again, the transport is not connected.
C11_FailedConnectStaysDisconnected == (connect_result = False) => ~connected

\* C12: a pattern subscribe() was called for again has exactly one registry entry,
\* bound to the handler of the latest call, and a handler call scheduled for that
\* handler on an event matching the pattern runs that handler.
C12_ResubscribeReplaces ==
    \A r \in rebound :
        /\ \E i \in 1..Len(subscriptions) :
              /\ subscriptions[i] = r
              /\ \A j \in 1..Len(subscriptions) :
                    subscriptions[j].topic = r.topic => j = i
        /\ (/\ invoked # <<>>
            /\ invoked[1].want.callback = r.callback
            /\ topic_matches(r.topic, invoked[1].want.topic))
                => invoked[1].got.callback = r.callback

\* the segments of a pattern are legal for the multi-level wildcard: "#" is the
\* last segment and no other
HashLast(ps) == ps[Len(ps)] = <<"#">> /\ \A i \in 1..(Len(ps) - 1) : ps[i] # <<"#">>

\* C13: for a pattern whose final segment is "#", _topic_matches returns True
\* exactly when the topic has a segment for every pattern segment before the "#"
\* and each of these is "+" or equals the topic's segment at its position.
C13_MultiLevelWildcard ==
    LET ps == Split(match_in.subscription)
        ts == Split(match_in.topic)
    IN (match_out # <<>> /\ HashLast(ps))
          => ((match_out[1] = True)
                <=> /\ Len(ts) >= Len(ps) - 1
                    /\ \A i \in 1..(Len(ps) - 1) : ps[i] = <<"+">> \/ ps[i] = ts[i])

\* pattern and topic have the same number of segments and every pattern segment
\* is "+" or equals the topic's segment at its position
SameSegments(ps, ts) ==
    /\ Len(ps) = Len(ts)
    /\ \A i \in 1..Len(ps) : ps[i] = <<"+">> \/ ps[i] = ts[i]

LabelOfCode(k) == IF k = <<"0">> THEN <<"O", "f", "f">> ELSE <<"S">> \o k
SpeedCodes == {<<"0">>, <<"1">>, <<"2">>, <<"3">>, <<"4">>, <<"5">>, <<"6">>, <<"7">>}
SpeedLabels == {LabelOfCode(k) : k \in SpeedCodes}

\* C15: a message routed to _update_fan_from_payload sets, for a payload that is
\* a code "0".."7", that code and its label; for a payload that is a label Off,
\* S1..S7, that label and its code; for every other payload the label Off and
\* the code "0".
C15_IngestSpeed ==
    [][ (/\ esteps' # esteps
         /\ recent' # <<>>
         /\ recent'[1].kind = "message"
         /\ recent'[1].what = "speed")
            => LET p == recent'[1].payload
               IN IF p \in SpeedCodes
                  THEN dev'.current_speed = <<p>> /\ dev'.fan_mode = <<LabelOfCode(p)>>
                  ELSE IF p \in SpeedLabels
                  THEN /\ dev'.fan_mode = <<p>>
                       /\ \E k \in SpeedCodes : LabelOfCode(k) = p /\ dev'.current_speed = <<k>>
                  ELSE dev'.fan_mode = <<<<"O", "f", "f">>>> /\ dev'.current_speed = <<<<"0">>>>
      ]_vars

\* the attributes a command or a message for the field what sets
Field(d, what) ==
    CASE what = "mode" -> <<d.hvac_mode, d.current_mode, d.preset_mode>>
      [] what = "speed" -> <<d.fan_mode, d.current_speed>>
      [] what = "temperature" -> <<d.target_temperature>>
      [] OTHER -> <<>>

\* the payload of a message for the field what decodes to a value
Decodes(what, payload) ==
    CASE what = "mode" -> ParseInt(payload).ok
      [] what = "temperature" -> ParseFloat(payload).ok
      [] OTHER -> TRUE

\* C16: when a command ends and the latest entity step was a message for the
\* command's field, handled after the command was called and carrying a value,
\* the field keeps what the message set.
C16_InboundWins ==
    [][ (/\ cmd # <<>>
         /\ cmd' = <<>>
         /\ recent # <<>>
         /\ recent[1].kind = "message"
         /\ recent[1].what = cmd[1].prepared.what
         /\ esteps > cmd[1].at
         /\ Decodes(recent[1].what, recent[1].payload))
            => Field(dev', cmd[1].prepared.what) = Field(dev, cmd[1].prepared.what)
      ]_vars

\* C17: when a command has reached its await of publish(), the field it sets
\* already holds what the command assigns.
C17_OptimisticUpdate ==
    [][ (cmd = <<>> /\ cmd' # <<>>)
            => Field(dev', cmd'[1].prepared.what)
                 = Field(Assigned(dev, cmd'[1].c, cmd'[1].prepared), cmd'[1].prepared.what)
      ]_vars

\* C18: the preset is the table entry of the operating code: comfort, auto, sleep,
\* boost, eco for 1..5 and none for every other code.
C18_PresetFollowsMode ==
    dev.preset_mode = (CASE dev.current_mode = 1 -> PRESET_COMFORT
                         [] dev.current_mode = 2 -> PRESET_AUTO
                         [] dev.current_mode = 3 -> PRESET_SLEEP
                         [] dev.current_mode = 4 -> PRESET_BOOST
                         [] dev.current_mode = 5 -> PRESET_ECO
                         [] OTHER -> PRESET_NONE)

\* C19: the fan speed code and the fan label are both unknown, or the code is one
\* of "0".."7" and the label is the one the speed table gives for it.
C19_FanLockStep ==
    \/ dev.fan_mode = <<>> /\ dev.current_speed = <<>>
    \/ /\ dev.fan_mode # <<>>
       /\ dev.current_speed # <<>>
       /\ dev.current_speed[1] \in SpeedCodes
       /\ dev.fan_mode[1] = LabelOfCode(dev.current_speed[1])

StateFields == {"mode", "speed", "temperature", "current_temp"}

\* C20: the four received flags are false at the start; handling a message on a
\* field's state topic sets that field's flag, whatever the payload, and leaves
\* the other three alone; no step resets a flag.
C20_ReceivedFlags ==
    /\ \A f \in StateFields : ~dev.state_received[f]
    /\ [][ /\ \A f \in StateFields : dev.state_received[f] => dev'.state_received[f]
           /\ \A f \in StateFields, m \in EntityMessages(topic_prefix) :
                (m[1] = StateTopics(topic_prefix)[f] /\ MessageReceived(m[1], m[2]))
                    => dev'.state_received = [dev.state_received EXCEPT ![f] = TRUE]
         ]_vars

\* C21: the target temperature (held in tenths of a degree) lies between
\* _attr_min_temp and _attr_max_temp.
C21_TargetTemperatureInRange ==
    /\ 10 * attr_min_temp <= dev.target_temperature
    /\ dev.target_temperature <= 10 * attr_max_temp

\* C22: power is off exactly when the operating code is 0.
C22_PowerOffIffModeZero == (dev.hvac_mode = HVAC_OFF) <=> (dev.current_mode = 0)

\* C22 witness: a power-off command has ended that found a non-zero operating
\* code, set by a mode message before it
C22_Witness ==
    /\ dev.state_received.mode
    /\ recent # <<>>
    /\ recent[1].kind = "hvac"
    /\ recent[1].hvac_mode = HVAC_OFF
    /\ recent[1].found_mode # 0
    /\ dev.hvac_mode = HVAC_OFF
    /\ dev.current_mode = 0

(***************************************************************************)
(* Properties of disconnect() and of the clients and tasks of a transport. *)
(***************************************************************************)
\* C23: disconnect() cancels the consumer task it finds running and releases
\* nothing in that step; when it stops the network loop and releases the socket
\* of its client, the task self._message_processor_task names has exited.
C23_TaskExitsBeforeSocketRelease ==
    [][ /\ (/\ dcalls' # dcalls
            /\ message_processor_task # 0
            /\ tasks[message_processor_task].state = "waiting")
                => /\ tasks'[message_processor_task].state = "cancelling"
                   /\ UNCHANGED <<link, loop_running>>
        /\ (client # 0 /\ link[client] # "none" /\ link'[client] = "none"
                /\ message_processor_task # 0)
                => tasks[message_processor_task].state = "done"
        /\ (pc = "d_stop" /\ pc' # pc)
                => (~loop_running'[client] /\ link'[client] = "none")
      ]_vars

\* C23 witness: disconnect() has released the socket of a client that was up,
\* after the task that was relaying for it has exited
C23_Witness ==
    /\ pc = "d_ret"
    /\ message_processor_task = client
    /\ tasks[message_processor_task].state = "done"
    /\ tasks[message_processor_task].topic # <<>>
    /\ link[client] = "none"
    /\ ~loop_running[client]

\* the consumer tasks that have not exited
RunningTasks == {t \in 1..MaxClients : tasks[t].state \in {"waiting", "cancelling"}}

\* the broker clients whose network loop runs
RunningClients == {c \in 1..MaxClients : loop_running[c]}

\* C24: at most one consumer task and at most one broker client run at any
\* moment, and none runs from the return of disconnect() until connect() is
\* called again.
C24_OneTaskOneClient ==
    /\ Cardinality(RunningTasks) <= 1
    /\ Cardinality(RunningClients) <= 1
    /\ quiesced => (RunningTasks = {} /\ RunningClients = {})

\* C25: with the transport connected on a running client that is up, and no subscribe()
\* call, no subscribe job and no _on_connect under way, every pattern of the
\* registry has had its broker subscribe on that client.
C25_RegisteredMeansSubscribed ==
    (/\ connected
     /\ client # 0
     /\ link[client] = "up"
     /\ loop_running[client]
     /\ replaying = <<>>
     /\ subscribing = <<>>
     /\ sub_jobs = {})
        => RegisteredPatterns \subseteq broker_subs[client]

\* the attributes that belong to the state topic of the field what
Attributes(d, what) ==
    IF what = "current_temp" THEN <<d.current_temperature>> ELSE Field(d, what)

\* C26: for every client id, handling a message on the state topic of one field
\* leaves the attributes and the received flags of the other three fields as
\* they were.
C26_RoutingFrame ==
    [][ \A f \in StateFields, m \in EntityMessages(topic_prefix) :
            (m[1] = StateTopics(topic_prefix)[f] /\ MessageReceived(m[1], m[2]))
                => \A g \in StateFields \ {f} :
                      /\ Attributes(dev', g) = Attributes(dev, g)
                      /\ dev'.state_received[g] = dev.state_received[g]
      ]_vars

=============================================================================
